---- MODULE Spec2Model ----
(***************************************************************************)
(* Model of the registry-driven dependency finder                          *)
(* (src/src/components/PackageVersionFinder.tsx, lines 471-917) together   *)
(* with its two entry points, the HTTP route (src/app/api/search/route.ts) *)
(* and the CLI (src/dist/cli/cli/cli.js).                                  *)
(*                                                                         *)
(* Strings are sequences of one-character tokens ("1", ".", "-", "@",      *)
(* letters), so that split/join, the regular expression of                 *)
(* analyzeVersionRequirements and the semver parser are computed on the    *)
(* text as the code computes them.                                         *)
(***************************************************************************)
EXTENDS Integers, Sequences, FiniteSets, TLC

(***************************************************************************)
(* Bounds of the model.                                                    *)
(***************************************************************************)
MaxCalls == 2
MaxFailures == 1

(***************************************************************************)
(* Characters and strings.                                                 *)
(***************************************************************************)
Digits == {"0", "1", "2", "3", "4", "5", "6", "7", "8", "9"}

Letters == {"a", "b", "c", "d", "e", "f", "g", "p", "t", "y", "z"}

DigitVal(c) ==
  CASE c = "0" -> 0 [] c = "1" -> 1 [] c = "2" -> 2 [] c = "3" -> 3
    [] c = "4" -> 4 [] c = "5" -> 5 [] c = "6" -> 6 [] c = "7" -> 7
    [] c = "8" -> 8 [] c = "9" -> 9

\* ASCII order of the characters that occur in version strings.
Rank(c) ==
  CASE c = "-" -> 45 [] c = "." -> 46 [] c \in Digits -> 48 + DigitVal(c)
    [] OTHER -> 97

Null == <<"null">>

\* String.prototype.split(sep) for a one-character separator.
RECURSIVE SplitAcc(_, _, _)
SplitAcc(s, sep, cur) ==
  IF s = <<>> THEN <<cur>>
  ELSE IF Head(s) = sep THEN <<cur>> \o SplitAcc(Tail(s), sep, <<>>)
  ELSE SplitAcc(Tail(s), sep, Append(cur, Head(s)))

Split(s, sep) == SplitAcc(s, sep, <<>>)

\* Array.prototype.join(sep); sep is a string.
RECURSIVE Join(_, _)
Join(parts, sep) ==
  IF parts = <<>> THEN <<>>
  ELSE IF Len(parts) = 1 THEN parts[1]
  ELSE parts[1] \o sep \o Join(Tail(parts), sep)

\* Index of the first / last occurrence of character c in s, 0 if none.
IndexOf(s, c) ==
  IF \E i \in 1..Len(s) : s[i] = c
  THEN CHOOSE i \in 1..Len(s) : s[i] = c /\ \A j \in 1..(i - 1) : s[j] # c
  ELSE 0

LastIndexOf(s, c) ==
  IF \E i \in 1..Len(s) : s[i] = c
  THEN CHOOSE i \in 1..Len(s) : s[i] = c /\ \A j \in (i + 1)..Len(s) : s[j] # c
  ELSE 0

(***************************************************************************)
(* normalizeVersion: "4" -> "4.0.0", "4.1" -> "4.1.0".                     *)
(***************************************************************************)
RECURSIVE PadParts(_)
PadParts(parts) ==
  IF Len(parts) < 3 THEN PadParts(Append(parts, <<"0">>)) ELSE parts

\* Exactly three components: what is behind the third one is dropped.
normalizeVersion_FirstThree(version) == Join(SubSeq(PadParts(Split(version, ".")), 1, 3), <<".">>)

normalizeVersion(version) == Join(PadParts(Split(version, ".")), <<".">>)

(***************************************************************************)
(* The semver library, as far as the program uses it.                      *)
(***************************************************************************)
AllDigits(s) == \A i \in 1..Len(s) : s[i] \in Digits

\* A numeric identifier: digits without a leading zero.
IsNumericId(s) == Len(s) > 0 /\ AllDigits(s) /\ (Len(s) > 1 => s[1] # "0")

\* A pre-release identifier: numeric, or alphanumeric with a non-digit.
IsPreId(s) ==
  /\ Len(s) > 0
  /\ \A i \in 1..Len(s) : s[i] \in Digits \cup Letters \cup {"-"}
  /\ (AllDigits(s) => IsNumericId(s))

RECURSIVE NumVal(_)
NumVal(s) ==
  IF s = <<>> THEN 0 ELSE 10 * NumVal(SubSeq(s, 1, Len(s) - 1)) + DigitVal(s[Len(s)])

Invalid == [valid |-> FALSE]

\* new SemVer(str): major.minor.patch with an optional -prerelease.
semverParse(str) ==
  LET dash == IndexOf(str, "-")
      core == IF dash = 0 THEN str ELSE SubSeq(str, 1, dash - 1)
      pre == IF dash = 0 THEN <<>> ELSE Split(SubSeq(str, dash + 1, Len(str)), ".")
      parts == Split(core, ".")
  IN IF /\ Len(parts) = 3
        /\ \A i \in 1..3 : IsNumericId(parts[i])
        /\ \A i \in 1..Len(pre) : IsPreId(pre[i])
     THEN [valid |-> TRUE, major |-> NumVal(parts[1]), minor |-> NumVal(parts[2]),
           patch |-> NumVal(parts[3]), prerelease |-> pre]
     ELSE Invalid

semverValid(str) == semverParse(str).valid

\* semver.prerelease(v): the pre-release components, or null (falsy).
semverPrerelease(str) ==
  LET p == semverParse(str) IN p.valid /\ Len(p.prerelease) > 0

RECURSIVE LexCompare(_, _)
LexCompare(a, b) ==
  IF a = <<>> /\ b = <<>> THEN 0
  ELSE IF a = <<>> THEN -1
  ELSE IF b = <<>> THEN 1
  ELSE IF Rank(Head(a)) < Rank(Head(b)) THEN -1
  ELSE IF Rank(Head(a)) > Rank(Head(b)) THEN 1
  ELSE LexCompare(Tail(a), Tail(b))

compareIdentifiers(a, b) ==
  IF AllDigits(a) /\ AllDigits(b)
  THEN (IF NumVal(a) < NumVal(b) THEN -1 ELSE IF NumVal(a) > NumVal(b) THEN 1 ELSE 0)
  ELSE IF AllDigits(a) THEN -1
  ELSE IF AllDigits(b) THEN 1
  ELSE LexCompare(a, b)

RECURSIVE comparePre(_, _)
comparePre(a, b) ==
  IF a = <<>> /\ b = <<>> THEN 0
  ELSE IF a = <<>> THEN -1
  ELSE IF b = <<>> THEN 1
  ELSE LET c == compareIdentifiers(Head(a), Head(b))
       IN IF c # 0 THEN c ELSE comparePre(Tail(a), Tail(b))

\* SemVer.compare on two parsed versions: -1, 0 or 1.
compareParsed(a, b) ==
  IF a.major # b.major THEN (IF a.major < b.major THEN -1 ELSE 1)
  ELSE IF a.minor # b.minor THEN (IF a.minor < b.minor THEN -1 ELSE 1)
  ELSE IF a.patch # b.patch THEN (IF a.patch < b.patch THEN -1 ELSE 1)
  ELSE IF a.prerelease = <<>> /\ b.prerelease = <<>> THEN 0
  ELSE IF a.prerelease = <<>> THEN 1
  ELSE IF b.prerelease = <<>> THEN -1
  ELSE comparePre(a.prerelease, b.prerelease)

\* semver.compare / gte / lt on strings; the callers check validity first
\* (an invalid operand makes the library throw a TypeError).
semverCompare(a, b) == compareParsed(semverParse(a), semverParse(b))

semverGte(a, b) == semverCompare(a, b) >= 0

semverLt(a, b) == semverCompare(a, b) < 0

(***************************************************************************)
(* Ranges.  A range is [op, v]: "=" (an exact version), "^" (caret) or     *)
(* "*" (any); v is the version string written after the operator.          *)
(***************************************************************************)
Exact(v) == [op |-> "=", v |-> v]

Caret(v) == [op |-> "^", v |-> v]

Star == [op |-> "*", v |-> <<>>]

\* The exclusive upper bound of ^v, which semver writes with a -0 tag.
caretUpper(rv) ==
  IF rv.major > 0
  THEN [valid |-> TRUE, major |-> rv.major + 1, minor |-> 0, patch |-> 0,
        prerelease |-> << <<"0">> >>]
  ELSE IF rv.minor > 0
  THEN [valid |-> TRUE, major |-> 0, minor |-> rv.minor + 1, patch |-> 0,
        prerelease |-> << <<"0">> >>]
  ELSE [valid |-> TRUE, major |-> 0, minor |-> 0, patch |-> rv.patch + 1,
        prerelease |-> << <<"0">> >>]

sameTuple(a, b) == a.major = b.major /\ a.minor = b.minor /\ a.patch = b.patch

\* Range.test(version): a pre-release version matches only when
\* includePrerelease is set or a comparator of the same major.minor.patch
\* itself carries a pre-release tag.
semverSatisfies(version, range, includePrerelease) ==
  LET pv == semverParse(version)
      rv == semverParse(range.v)
  IN /\ pv.valid
     /\ range.op # "*" => rv.valid
     /\ CASE range.op = "*" -> TRUE
          [] range.op = "=" -> compareParsed(pv, rv) = 0
          [] range.op = "^" -> /\ compareParsed(pv, rv) >= 0
                               /\ compareParsed(pv, caretUpper(rv)) < 0
     /\ \/ pv.prerelease = <<>>
        \/ includePrerelease
        \/ range.op # "*" /\ rv.prerelease # <<>> /\ sameTuple(pv, rv)

\* semver.maxSatisfying(versions, range, options): the greatest matching
\* version, or null.
semverMaxSatisfying(versions, range, includePrerelease) ==
  LET ok == {i \in 1..Len(versions) :
               semverSatisfies(versions[i], range, includePrerelease)}
  IN IF ok = {} THEN Null
     ELSE versions[CHOOSE i \in ok :
                     \A j \in ok : semverCompare(versions[i], versions[j]) >= 0]

(***************************************************************************)
(* The registry snapshot: for each published package name, its version     *)
(* records in the order of Object.keys(meta.versions).                     *)
(***************************************************************************)
V(a, b, c) == <<a, ".", b, ".", c>>

pkgP == <<"p">>
pkgA == <<"a">>
pkgB == <<"b">>
pkgC == <<"c">>
pkgD == <<"d">>
pkgE == <<"e">>
pkgG == <<"g">>
pkgFD == <<"f", "d">>
pkgY == <<"y">>
pkgZ == <<"z">>
pkgT == <<"t">>

Rec(v, deps, opt, peer) ==
  [version |-> v, dependencies |-> deps, optionalDependencies |-> opt,
   peerDependencies |-> peer]

Registry ==
  [n \in {pkgP, pkgA, pkgB, pkgC, pkgD, pkgE, pkgG, pkgFD, pkgZ, pkgT} |->
    CASE n = pkgP ->
           << Rec(V("2", "0", "0"), << <<pkgB, Caret(V("2", "0", "0"))>> >>, <<>>, <<>>),
              Rec(V("1", "0", "0"),
                  << <<pkgB, Caret(V("1", "0", "0"))>>, <<pkgC, Caret(V("1", "0", "0"))>> >>,
                  <<>>, <<>>),
              Rec(V("3", "0", "0") \o <<"-", "1">>, <<>>, <<>>, <<>>),
              Rec(V("1", "1", "0"), << <<pkgFD, Exact(V("2", "0", "0"))>> >>, <<>>, <<>>),
              Rec(V("3", "0", "0"),
                  << <<pkgZ, Caret(V("9", "0", "0"))>>, <<pkgY, Star>>,
                     <<pkgD, Exact(V("1", "0", "0"))>> >>,
                  << <<pkgD, Exact(V("2", "0", "0"))>> >>,
                  << <<pkgG, Star>> >>),
              Rec(V("1", "1", "0") \o <<"-", "1">>, <<>>, <<>>, <<>>) >>
      [] n = pkgA ->
           << Rec(V("1", "0", "0"), << <<pkgD, Caret(V("2", "0", "1"))>> >>, <<>>, <<>>),
              Rec(V("1", "0", "0") \o <<"-", "b", "e", "t", "a", ".", "1">>, <<>>, <<>>, <<>>),
              Rec(V("0", "9", "0"), <<>>, <<>>, <<>>),
              Rec(V("2", "0", "0"),
                  << <<pkgFD, Exact(V("2", "0", "0"))>>, <<pkgB, Caret(V("1", "0", "0"))>> >>,
                  <<>>, <<>>) >>
      [] n = pkgB ->
           << Rec(V("1", "0", "0"), << <<pkgD, Caret(V("1", "0", "0"))>> >>, <<>>, <<>>),
              Rec(V("2", "0", "0"), << <<pkgC, Caret(V("2", "0", "0"))>> >>, <<>>, <<>>) >>
      [] n = pkgC ->
           << Rec(V("1", "0", "0"),
                  << <<pkgD, Caret(V("1", "0", "0"))>>, <<pkgB, Caret(V("1", "0", "0"))>> >>,
                  <<>>, <<>>),
              Rec(V("2", "0", "0"), << <<pkgE, Star>> >>, <<>>, <<>>) >>
      [] n = pkgD ->
           << Rec(V("1", "0", "0"), <<>>, <<>>, <<>>),
              Rec(V("2", "0", "0"), <<>>, <<>>, <<>>),
              Rec(V("1", "1", "0"), << <<pkgG, Star>> >>, <<>>, <<>>),
              Rec(V("2", "1", "0") \o <<"-", "1">>, <<>>, <<>>, <<>>) >>
      [] n = pkgE ->
           << Rec(V("1", "0", "0"), << <<pkgG, Star>> >>, <<>>, <<>>) >>
      [] n = pkgG ->
           << Rec(V("1", "0", "0"),
                  << <<pkgC, Caret(V("2", "0", "0"))>>, <<pkgD, Star>> >>, <<>>, <<>>) >>
      [] n = pkgFD ->
           << Rec(V("2", "0", "0"), << <<pkgD, Exact(V("1", "0", "0"))>> >>, <<>>, <<>>) >>
      [] n = pkgZ ->
           << Rec(V("1", "0", "0"), <<>>, <<>>, <<>>) >>
      [] n = pkgT -> <<>> ]

\* Object.keys(meta.versions || {})
versionKeys(meta) == [i \in 1..Len(meta) |-> meta[i].version]

\* meta.versions?.[version]: the index of the record, 0 when it is missing.
versionIndex(meta, version) ==
  IF \E i \in 1..Len(meta) : meta[i].version = version
  THEN CHOOSE i \in 1..Len(meta) : meta[i].version = version
  ELSE 0

(***************************************************************************)
(* Pure parts of the search.                                               *)
(***************************************************************************)
\* getPackageVersions without the sort: the keys in manifest order.
sortVersions_Unsorted(meta) == versionKeys(meta)

\* getPackageVersions: the version keys sorted with semver.compare.
sortVersions(meta) ==
  SortSeq(versionKeys(meta), LAMBDA a, b : semverCompare(a, b) < 0)

\* semver.gte in the floor filter throws on an invalid operand.
filterThrows(versions, parentMinVersion) ==
  /\ parentMinVersion # <<>>
  /\ \/ ~semverValid(normalizeVersion(parentMinVersion))
     \/ \E i \in 1..Len(versions) : ~semverValid(normalizeVersion(versions[i]))

\* The floor filter comparing major.minor.patch only, the pre-release tag
\* of the version left out of the comparison.
filterVersions_IgnoringTag(versions, parentMinVersion) ==
  SelectSeq(versions,
            LAMBDA v : \/ parentMinVersion = <<>>
                       \/ compareParsed([semverParse(normalizeVersion(v)) EXCEPT !.prerelease = <<>>],
                                        semverParse(normalizeVersion(parentMinVersion))) >= 0)

filterVersions(versions, parentMinVersion) ==
  SelectSeq(versions,
            LAMBDA v : \/ parentMinVersion = <<>>
                       \/ semverGte(normalizeVersion(v), normalizeVersion(parentMinVersion)))

\* The candidates in sorted order, without the two groups.
versionGroups_Ungrouped(filteredVersions) ==
  [i \in 1..Len(filteredVersions) |->
     [version |-> filteredVersions[i],
      type |-> IF semverPrerelease(filteredVersions[i]) THEN "pre-release" ELSE "stable"]]

\* versionGroups flattened: the stable group, then the pre-release group.
versionGroups(filteredVersions) ==
  LET stableVersions == SelectSeq(filteredVersions, LAMBDA v : ~semverPrerelease(v))
      preReleaseVersions == SelectSeq(filteredVersions, LAMBDA v : semverPrerelease(v))
  IN [i \in 1..Len(stableVersions) |-> [version |-> stableVersions[i], type |-> "stable"]]
     \o [i \in 1..Len(preReleaseVersions) |->
           [version |-> preReleaseVersions[i], type |-> "pre-release"]]

\* "name@version" and the path separator " > ".
hop(name, version) == name \o <<"@">> \o version

PathSep == <<" ", ">", " ">>

\* splitNameAndVersion: cut at the last "@"; throws when there is none or
\* it is the first character.
splitThrows(spec) == LastIndexOf(spec, "@") <= 1

splitNameAndVersion(spec) ==
  LET atIndex == LastIndexOf(spec, "@")
  IN <<SubSeq(spec, 1, atIndex - 1), SubSeq(spec, atIndex + 1, Len(spec))>>

\* The dependency edges of a version record: dependencies overlaid with
\* optionalDependencies (object spread keeps the position of the first
\* insertion and the value of the last); peerDependencies are left out.
RECURSIVE spreadInto(_, _)
spreadInto(acc, entries) ==
  IF entries = <<>> THEN acc
  ELSE LET e == Head(entries)
           at == {i \in 1..Len(acc) : acc[i][1] = e[1]}
       IN spreadInto(IF at = {} THEN Append(acc, e)
                     ELSE [acc EXCEPT ![CHOOSE i \in at : TRUE] = e],
                     Tail(entries))

\* The spread with peerDependencies as a third source.
mergeDeps_WithPeers(pkg) == spreadInto(spreadInto(spreadInto(<<>>, pkg.dependencies), pkg.optionalDependencies), pkg.peerDependencies)

mergeDeps(pkg) ==
  spreadInto(spreadInto(<<>>, pkg.dependencies), pkg.optionalDependencies)

\* The match of /${childPackage}@([\d\.]+(?:-[\w\.]+)*)/ in a line: the
\* captured group of the leftmost match, or null.
WordChars == Digits \cup Letters \cup {"_"}

RECURSIVE RunEnd(_, _, _)
RunEnd(line, j, S) ==
  IF j <= Len(line) /\ line[j] \in S THEN RunEnd(line, j + 1, S) ELSE j - 1

RECURSIVE GroupsEnd(_, _)
GroupsEnd(line, k) ==
  IF k + 2 <= Len(line) /\ line[k + 1] = "-" /\ line[k + 2] \in WordChars \cup {"."}
  THEN GroupsEnd(line, RunEnd(line, k + 2, WordChars \cup {"."}))
  ELSE k

matchVersion(line, childPackage) ==
  LET n == Len(childPackage)
      starts == {i \in 1..Len(line) :
                   /\ i + n + 1 <= Len(line)
                   /\ SubSeq(line, i, i + n - 1) = childPackage
                   /\ line[i + n] = "@"
                   /\ line[i + n + 1] \in Digits \cup {"."}}
  IN IF starts = {} THEN Null
     ELSE LET i == CHOOSE x \in starts : \A y \in starts : x <= y
              j == i + n + 1
          IN SubSeq(line, j, GroupsEnd(line, RunEnd(line, j, Digits \cup {"."})))

\* analyzeVersionRequirements: a line without a match is passed over; a
\* matched version is compared only when minVersion is non-empty, and the
\* comparison throws on an invalid operand.
lineCompared(line, childPackage, minVersion) ==
  matchVersion(line, childPackage) # Null /\ minVersion # <<>>

lineInvalid(line, childPackage, minVersion) ==
  /\ lineCompared(line, childPackage, minVersion)
  /\ semverLt(normalizeVersion(matchVersion(line, childPackage)),
              normalizeVersion(minVersion))

requirementsThrow(dependencyLines, childPackage, minVersion) ==
  \E i \in 1..Len(dependencyLines) :
     /\ lineCompared(dependencyLines[i], childPackage, minVersion)
     /\ \/ ~semverValid(normalizeVersion(matchVersion(dependencyLines[i], childPackage)))
        \/ ~semverValid(normalizeVersion(minVersion))

analyzeVersionRequirements(dependencyLines, childPackage, minVersion) ==
  LET invalidVersions ==
        SelectSeq(dependencyLines, LAMBDA l : lineInvalid(l, childPackage, minVersion))
  IN [allValid |-> invalidVersions = <<>>, invalidVersions |-> invalidVersions]

\* The verdict of analyzePackageDependencies on a traversal result.
NotFoundLine == <<"Package is not found in the dependency tree">>

Msg(text, version) == [text |-> text, version |-> version, versionType |-> ""]

verdictThrows(matches, childPackage, childMinVersion, packageRemoved) ==
  LET dependencyLines == [i \in 1..Len(matches) |-> matches[i].pathString]
  IN /\ Len(dependencyLines) > 0
     /\ packageRemoved => childMinVersion # <<>>
     /\ requirementsThrow(dependencyLines, childPackage, childMinVersion)

\* The verdict with the removal flag excluding the version test: a present
\* package fails whatever its versions are.
verdict_RemovalOnly(matches, parentVersion, childPackage, childMinVersion, packageRemoved) ==
  LET dependencyLines == [i \in 1..Len(matches) |-> matches[i].pathString]
      versionAnalysis ==
        analyzeVersionRequirements(dependencyLines, childPackage, childMinVersion)
  IN IF Len(dependencyLines) = 0
     THEN IF packageRemoved
          THEN [success |-> TRUE, message |-> Msg("removed", parentVersion),
                details |-> <<NotFoundLine>>]
          ELSE [success |-> FALSE, message |-> Msg("not found", Null), details |-> <<>>]
     ELSE IF packageRemoved
     THEN [success |-> FALSE, message |-> Msg("still exists", Null),
           details |-> dependencyLines]
     ELSE IF versionAnalysis.allValid
          THEN [success |-> TRUE, message |-> Msg("min version", parentVersion),
                details |-> dependencyLines]
          ELSE [success |-> FALSE, message |-> Msg("older", Null),
                details |-> versionAnalysis.invalidVersions]

\* The verdict with the removed-mode failure reporting the under-versioned
\* lines (none, without a minimum) instead of all occurrences.
verdict_NoDetails(matches, parentVersion, childPackage, childMinVersion, packageRemoved) ==
  LET dependencyLines == [i \in 1..Len(matches) |-> matches[i].pathString]
      versionAnalysis ==
        analyzeVersionRequirements(dependencyLines, childPackage, childMinVersion)
  IN IF Len(dependencyLines) = 0
     THEN IF packageRemoved
          THEN [success |-> TRUE, message |-> Msg("removed", parentVersion),
                details |-> <<NotFoundLine>>]
          ELSE [success |-> FALSE, message |-> Msg("not found", Null), details |-> <<>>]
     ELSE IF packageRemoved
     THEN IF childMinVersion # <<>>
          THEN IF versionAnalysis.allValid
               THEN [success |-> TRUE, message |-> Msg("min version or removed", parentVersion),
                     details |-> dependencyLines]
               ELSE [success |-> FALSE, message |-> Msg("neither", Null),
                     details |-> versionAnalysis.invalidVersions]
          ELSE [success |-> FALSE, message |-> Msg("still exists", Null),
                details |-> versionAnalysis.invalidVersions]
     ELSE IF versionAnalysis.allValid
          THEN [success |-> TRUE, message |-> Msg("min version", parentVersion),
                details |-> dependencyLines]
          ELSE [success |-> FALSE, message |-> Msg("older", Null),
                details |-> versionAnalysis.invalidVersions]

verdict(matches, parentVersion, childPackage, childMinVersion, packageRemoved) ==
  LET dependencyLines == [i \in 1..Len(matches) |-> matches[i].pathString]
      versionAnalysis ==
        analyzeVersionRequirements(dependencyLines, childPackage, childMinVersion)
  IN IF Len(dependencyLines) = 0
     THEN IF packageRemoved
          THEN [success |-> TRUE, message |-> Msg("removed", parentVersion),
                details |-> <<NotFoundLine>>]
          ELSE [success |-> FALSE, message |-> Msg("not found", Null), details |-> <<>>]
     ELSE IF packageRemoved
     THEN IF childMinVersion # <<>>
          THEN IF versionAnalysis.allValid
               THEN [success |-> TRUE, message |-> Msg("min version or removed", parentVersion),
                     details |-> dependencyLines]
               ELSE [success |-> FALSE, message |-> Msg("neither", Null),
                     details |-> versionAnalysis.invalidVersions]
          ELSE [success |-> FALSE, message |-> Msg("still exists", Null),
                details |-> dependencyLines]
     ELSE IF versionAnalysis.allValid
          THEN [success |-> TRUE, message |-> Msg("min version", parentVersion),
                details |-> dependencyLines]
          ELSE [success |-> FALSE, message |-> Msg("older", Null),
                details |-> versionAnalysis.invalidVersions]

\* resolveVersion once the manifest is at hand: stable versions first, then
\* all versions with includePrerelease.
resolveIn(meta, range) ==
  LET allVersions == versionKeys(meta)
      stable == SelectSeq(allVersions, LAMBDA v : ~semverPrerelease(v))
      match == semverMaxSatisfying(stable, range, FALSE)
  IN IF match # Null THEN match ELSE semverMaxSatisfying(allVersions, range, TRUE)

(***************************************************************************)
(* Inputs.                                                                 *)
(***************************************************************************)
ParentFloors == {<<>>, <<"1", ".", "1">>, <<"2", ".", "1">>, <<"4">>}

ChildMinimums == {<<>>, <<"1", ".", "1">>, <<"2">>}

\* JSON bodies posted to the HTTP route.
RouteBodies ==
  [parentPackage : {pkgP}, parentMinVersion : ParentFloors,
   childPackage : {pkgD}, childMinVersion : ChildMinimums,
   packageRemoved : BOOLEAN]
  \cup [parentPackage : {pkgA}, parentMinVersion : {V("1", "0", "0"), <<"1", ".", "1">>},
         childPackage : {pkgD}, childMinVersion : {<<"2">>},
         packageRemoved : {FALSE}]
  \cup [parentPackage : {pkgA}, parentMinVersion : {V("1", "0", "0")},
         childPackage : {pkgD}, childMinVersion : {<<>>},
         packageRemoved : {TRUE}]
  \cup [parentPackage : {<<>>}, parentMinVersion : {<<>>},
         childPackage : {pkgD}, childMinVersion : ChildMinimums,
         packageRemoved : BOOLEAN]

\* Command lines of the CLI: positional specs "name" or "name@version" and
\* the flag --removed.
spec(name, version) == IF version = <<>> THEN name ELSE hop(name, version)

RemovedFlag == <<"-", "-", "r", "e", "m", "o", "v", "e", "d">>

HelpFlag == <<"-", "-", "h", "e", "l", "p">>

CliFloors == {<<>>, <<"2", ".", "1">>}

CliArgvs ==
  {<<spec(pkgP, f), spec(pkgD, m)>> : f \in CliFloors, m \in ChildMinimums}
  \cup {<<spec(pkgP, f), spec(pkgD, m), RemovedFlag>> : f \in CliFloors, m \in ChildMinimums}
  \cup {<<spec(pkgP, <<>>)>>, <<HelpFlag>>}

(***************************************************************************)
(* State.                                                                  *)
(***************************************************************************)
\* Node ceiling of one traversal.  The program's value is 3000; the model
\* uses a ceiling its registry can exceed.
maxNodes == 5

Procs == {1, 2}

VARIABLES
  packageMetaCache,        \* process-wide Map: name -> manifest
  versionResolutionCache,  \* process-wide Map: <<name, range>> -> version or null
  proc,                    \* per caller: position and locals of its call
  active,                  \* the callers that exist
  calls,                   \* calls started by each caller
  failures,                \* transient registry failures so far
  fetchCount,              \* registry requests issued, per name
  past,                    \* the last call served before the server process restarted
  shell                    \* shell-out variant: clock, temporary directories, analyses

vars == <<packageMetaCache, versionResolutionCache, proc, active, calls,
          failures, fetchCount, past, shell>>

NoParams ==
  [parentPackage |-> <<>>, parentMinVersion |-> <<>>, childPackage |-> <<>>,
   childMinVersion |-> <<>>, packageRemoved |-> FALSE]

NoNode == [name |-> <<>>, version |-> <<>>, path |-> <<>>]

NoResult ==
  [kind |-> "none", success |-> FALSE, version |-> Null,
   message |-> Msg("", Null), details |-> <<>>]

NoResolve == [name |-> <<>>, range |-> <<>>, value |-> Null, hadMeta |-> FALSE]

NoEval ==
  [version |-> Null, matches |-> <<>>, visitedCount |-> 0, truncated |-> FALSE,
   success |-> FALSE, threw |-> FALSE, details |-> <<>>]

InitProc ==
  [pc |-> "idle", entry |-> "none", params |-> NoParams,
   candidates |-> <<>>, idx |-> 0,
   queue |-> <<>>, visited |-> {}, matches |-> <<>>, truncated |-> FALSE,
   node |-> NoNode, deps |-> <<>>,
   fetchName |-> <<>>, cont |-> "none",
   result |-> NoResult, exitCode |-> -1,
   \* history of the current call, kept for the properties
   started |-> <<>>, evalLog |-> <<>>, lastEval |-> NoEval,
   processed |-> <<>>, expanded |-> {}, skipped |-> {}, droppedPaths |-> {},
   fetches |-> 0,
   ownFailure |-> FALSE, parentFetchFailed |-> FALSE,
   nullEdges |-> {}, lastResolve |-> NoResolve]

NoPast ==
  [recorded |-> FALSE, params |-> NoParams, result |-> NoResult, evalLog |-> <<>>,
   warm |-> FALSE, ownFailure |-> FALSE]

\* The shell-out variant (lib/package-finder.ts): the clock Date.now()
\* reads, the temporary directories that exist, and for each search the
\* analysis it has in flight.
MaxClock == 2

MaxAnalyses == 2

tempDirAt(now) == <<"/tmp/npm-dep-analysis-", now>>

NoJob == [pc |-> "idle", tempDir |-> <<>>, installed |-> FALSE, lines |-> FALSE, done |-> 0]

InitShell == [now |-> 0, dirs |-> {}, job |-> [p \in Procs |-> NoJob]]

TypeOK ==
  /\ active \subseteq Procs
  /\ DOMAIN proc = Procs
  /\ failures \in 0..MaxFailures
  /\ \A p \in Procs : calls[p] \in 0..MaxCalls

Init ==
  /\ packageMetaCache = <<>>
  /\ versionResolutionCache = <<>>
  /\ proc = [p \in Procs |-> InitProc]
  /\ active = {1}
  /\ calls = [p \in Procs |-> 0]
  /\ failures = 0
  /\ fetchCount = [n \in DOMAIN Registry \cup {pkgY, <<>>} |-> 0]
  /\ past = NoPast
  /\ shell = InitShell

Put(f, k, v) == [x \in DOMAIN f \cup {k} |-> IF x = k THEN v ELSE f[x]]

Cached(name) == name \in DOMAIN packageMetaCache

(***************************************************************************)
(* Steps of findCompatibleVersion.  A step runs from one suspension on the *)
(* network to the next; everything between two awaits of fetch() is        *)
(* synchronous in the single-threaded runtime.                             *)
(***************************************************************************)
\* A return that names the candidate tried last whatever the outcome.
return_LastTried(r, success, version, message, details) ==
  [r EXCEPT !.pc = "done",
            !.result = [kind |-> "search", success |-> success,
                        version |-> IF r.started # <<>> THEN r.started[Len(r.started)]
                                    ELSE version,
                        message |-> message, details |-> details],
            !.exitCode = IF r.entry = "cli" THEN (IF success THEN 0 ELSE 2) ELSE -1]

\* return of findCompatibleVersion, and what the CLI makes of it.
return(r, success, version, message, details) ==
  [r EXCEPT !.pc = "done",
            !.result = [kind |-> "search", success |-> success, version |-> version,
                        message |-> message, details |-> details],
            !.exitCode = IF r.entry = "cli" THEN (IF success THEN 0 ELSE 2) ELSE -1]

\* findCompatibleVersion without its catch block: the exception leaves the
\* function.
catch_Rethrow(r) == [r EXCEPT !.pc = "threw"]

\* The catch block of findCompatibleVersion.
catch(r) == return(r, FALSE, Null, Msg("Error during search", Null), <<>>)

\* The search without the test for an empty filtered list: the candidate
\* loop is entered with no candidate.
orderCandidates_NoFloorTest(r, meta) ==
  LET versions == sortVersions(meta)
      parentMinVersion == r.params.parentMinVersion
  IN IF Len(versions) = 0
     THEN return(r, FALSE, Null, Msg("No versions found", Null), <<>>)
     ELSE IF filterThrows(versions, parentMinVersion) THEN catch(r)
     ELSE [r EXCEPT !.pc = "candidate",
                    !.candidates = versionGroups(filterVersions(versions, parentMinVersion)),
                    !.idx = 1]

\* After getPackageVersions: the floor filter and the version groups.
orderCandidates(r, meta) ==
  LET versions == sortVersions(meta)
      parentMinVersion == r.params.parentMinVersion
  IN IF Len(versions) = 0
     THEN return(r, FALSE, Null, Msg("No versions found", Null), <<>>)
     ELSE IF filterThrows(versions, parentMinVersion) THEN catch(r)
     ELSE IF Len(filterVersions(versions, parentMinVersion)) = 0
     THEN return(r, FALSE, Null, Msg("No versions >= floor", Null), <<>>)
     ELSE [r EXCEPT !.pc = "candidate",
                    !.candidates = versionGroups(filterVersions(versions, parentMinVersion)),
                    !.idx = 1]

\* fetchPackageMetadata on a cache miss: the request goes out.
startFetch(r, name, cont) ==
  [r EXCEPT !.pc = "fetching", !.fetchName = name, !.cont = cont,
            !.fetches = @ + 1]

\* The body of the traversal loop from the version record on.
expandNode(r, meta) ==
  LET i == versionIndex(meta, r.node.version)
  IN IF i = 0 THEN [r EXCEPT !.pc = "traverse"]
     ELSE [r EXCEPT !.pc = IF mergeDeps(meta[i]) = <<>> THEN "traverse" ELSE "deps",
                    !.deps = mergeDeps(meta[i]),
                    !.expanded = @ \cup {hop(r.node.name, r.node.version)}]

\* The dependency loop with a break, instead of a continue, on a dependency
\* that resolves to no version.
enqueueResolved_BreakOnNull(r, resolved) ==
  LET depName == Head(r.deps)[1]
      rest == [r EXCEPT !.deps = Tail(@),
                        !.pc = IF Tail(r.deps) = <<>> THEN "traverse" ELSE "deps"]
  IN IF resolved = Null THEN [r EXCEPT !.deps = <<>>, !.pc = "traverse"]
     ELSE [rest EXCEPT !.queue = Append(@, [name |-> depName, version |-> resolved,
                                             path |-> Append(r.node.path, hop(depName, resolved))])]

\* The rest of one iteration of the dependency loop, once resolveVersion
\* has answered.
enqueueResolved(r, resolved) ==
  LET depName == Head(r.deps)[1]
      rest == [r EXCEPT !.deps = Tail(@),
                        !.pc = IF Tail(r.deps) = <<>> THEN "traverse" ELSE "deps"]
  IN IF resolved = Null THEN rest
     ELSE [rest EXCEPT !.queue = Append(@, [name |-> depName, version |-> resolved,
                                             path |-> Append(r.node.path, hop(depName, resolved))])]

\* What resolveVersion returned for the dependency at the head of the loop,
\* and whether the manifest of that package was at hand (history).
noteResolve(r, hadMeta, resolved) ==
  [r EXCEPT !.lastResolve = [name |-> Head(r.deps)[1], range |-> Head(r.deps)[2],
                             value |-> resolved, hadMeta |-> hadMeta],
            !.nullEdges = IF resolved = Null THEN @ \cup {Head(r.deps)} ELSE @]

startCall(entry, params) ==
  [InitProc EXCEPT !.pc = "versions", !.entry = entry, !.params = params]

\* POST /api/search: the route validates the body, then calls
\* findCompatibleVersion.
POST(p, body) ==
  /\ proc[p].pc \in {"idle", "done"}
  /\ calls[p] < MaxCalls
  /\ calls' = [calls EXCEPT ![p] = @ + 1]
  /\ proc' = [proc EXCEPT ![p] =
       IF \/ body.parentPackage = <<>> \/ body.childPackage = <<>>
          \/ (~body.packageRemoved /\ body.childMinVersion = <<>>)
       THEN [InitProc EXCEPT !.pc = "done", !.entry = "route", !.params = body,
                             !.result = [NoResult EXCEPT !.kind = "http 400"]]
       ELSE startCall("route", body)]
  /\ UNCHANGED <<packageMetaCache, versionResolutionCache, active, failures, fetchCount, past, shell>>

\* parseArg of the CLI.
parseArg(s) ==
  LET at == LastIndexOf(s, "@")
  IN IF at <= 1 THEN [name |-> s, version |-> <<>>]
     ELSE [name |-> SubSeq(s, 1, at - 1), version |-> SubSeq(s, at + 1, Len(s))]

\* run() of the CLI: --help prints the usage and exits 0; tokens starting
\* with "-" are flags, the others are positional; fewer than two positional
\* arguments is a usage error.
run(p, argv) ==
  LET positional == SelectSeq(argv, LAMBDA t : ~(Len(t) > 0 /\ t[1] = "-"))
      removed == \E i \in 1..Len(argv) : argv[i] = RemovedFlag
      help == \E i \in 1..Len(argv) : argv[i] = HelpFlag
  IN /\ proc[p].pc \in {"idle", "done"}
     /\ calls[p] < MaxCalls
     /\ calls' = [calls EXCEPT ![p] = @ + 1]
     /\ proc' = [proc EXCEPT ![p] =
          IF help
          THEN [InitProc EXCEPT !.pc = "done", !.entry = "cli", !.exitCode = 0,
                                !.result = [NoResult EXCEPT !.kind = "help"]]
          ELSE IF Len(positional) < 2 \/ positional[1] = <<>> \/ positional[2] = <<>>
          THEN [InitProc EXCEPT !.pc = "done", !.entry = "cli", !.exitCode = 1,
                                !.result = [NoResult EXCEPT !.kind = "usage"]]
          ELSE startCall("cli",
                 [parentPackage |-> parseArg(positional[1]).name,
                  parentMinVersion |-> parseArg(positional[1]).version,
                  childPackage |-> parseArg(positional[2]).name,
                  childMinVersion |-> parseArg(positional[2]).version,
                  packageRemoved |-> removed])]
     /\ UNCHANGED <<packageMetaCache, versionResolutionCache, active, failures, fetchCount, past, shell>>

\* getPackageVersions(parentPackage), up to the fetch if there is one.
getPackageVersions(p) ==
  LET r == proc[p]
      name == r.params.parentPackage
  IN /\ r.pc = "versions"
     /\ IF Cached(name)
        THEN /\ proc' = [proc EXCEPT ![p] = orderCandidates(r, packageMetaCache[name])]
             /\ UNCHANGED fetchCount
        ELSE /\ proc' = [proc EXCEPT ![p] = startFetch(r, name, "versions")]
             /\ fetchCount' = [fetchCount EXCEPT ![name] = @ + 1]
     /\ UNCHANGED <<packageMetaCache, versionResolutionCache, active, calls, failures,
                    past, shell>>

\* The registry answers a request of fetchPackageMetadata: the manifest is
\* stored and handed to the caller, or the call throws (an unknown name, or
\* a transient failure).
fetchResponds(p, ok) ==
  LET name == proc[p].fetchName
      r == [proc[p] EXCEPT
              !.ownFailure = @ \/ (~ok /\ name \in DOMAIN Registry),
              !.parentFetchFailed = @ \/ (~ok /\ proc[p].cont = "versions")]
      json == Registry[name]
      key == <<name, IF r.deps = <<>> THEN Star ELSE Head(r.deps)[2]>>
  IN /\ r.pc = "fetching"
     /\ ok => name \in DOMAIN Registry
     /\ ~ok => (name \notin DOMAIN Registry \/ failures < MaxFailures)
     /\ failures' = IF ~ok /\ name \in DOMAIN Registry THEN failures + 1 ELSE failures
     /\ packageMetaCache' = IF ok THEN Put(packageMetaCache, name, json)
                            ELSE packageMetaCache
     /\ CASE r.cont = "versions" ->
               /\ proc' = [proc EXCEPT ![p] = IF ok THEN orderCandidates(r, json) ELSE catch(r)]
               /\ UNCHANGED versionResolutionCache
          [] r.cont = "node" ->
               /\ proc' = [proc EXCEPT ![p] =
                    IF ok THEN expandNode(r, json) ELSE [r EXCEPT !.pc = "traverse"]]
               /\ UNCHANGED versionResolutionCache
          [] r.cont = "resolve" ->
               /\ versionResolutionCache' =
                    Put(versionResolutionCache, key,
                        IF ok THEN resolveIn(json, key[2]) ELSE Null)
               /\ proc' = [proc EXCEPT ![p] =
                    enqueueResolved(noteResolve(r, ok, IF ok THEN resolveIn(json, key[2]) ELSE Null),
                                    IF ok THEN resolveIn(json, key[2]) ELSE Null)]
     /\ UNCHANGED <<active, calls, fetchCount, past, shell>>

\* The head of the candidate loop: either every candidate has failed, or
\* analyzePackageDependencies starts on the next one.
nextCandidate(p) ==
  LET r == proc[p]
      version == r.candidates[r.idx].version
      parentPackageVersion == hop(r.params.parentPackage, version)
      root == splitNameAndVersion(parentPackageVersion)
  IN /\ r.pc = "candidate"
     /\ proc' = [proc EXCEPT ![p] =
          IF r.idx > Len(r.candidates)
          THEN return(r, FALSE, Null, Msg("No compatible version found", Null), <<>>)
          ELSE IF splitThrows(parentPackageVersion) THEN catch(r)
          ELSE [r EXCEPT !.pc = "traverse",
                         !.queue = <<[name |-> root[1], version |-> root[2],
                                      path |-> <<hop(root[1], root[2])>>]>>,
                         !.visited = {}, !.matches = <<>>, !.truncated = FALSE,
                         !.node = NoNode, !.deps = <<>>,
                         !.started = Append(@, version),
                         !.processed = <<>>, !.expanded = {}, !.skipped = {},
                         !.droppedPaths = {}, !.nullEdges = {}]]
     /\ UNCHANGED <<packageMetaCache, versionResolutionCache, active, calls,
                    failures, fetchCount, past, shell>>

\* The traversal without the visited test.
alreadyVisited_Never(visited, key) == FALSE

\* The visited test of the traversal loop.
alreadyVisited(visited, key) == key \in visited

\* The traversal with the continue after the record missing.
stopAtTarget_Missing(node, targetName) == FALSE

\* The test that makes a target node a leaf: it is recorded and the loop
\* continues with the next queue entry.
stopAtTarget(node, targetName) == node.name = targetName

\* The ceiling test, made after the key has been added.
overCeiling(visited) == Cardinality(visited) > maxNodes

\* One iteration of the while loop of findChildOccurrencesInTree, up to the
\* dependency loop.
dequeue(p) ==
  LET r == proc[p]
      targetName == r.params.childPackage
      node == Head(r.queue)
      key == hop(node.name, node.version)
      r1 == [r EXCEPT !.queue = Tail(@)]
      r2 == [r1 EXCEPT !.visited = @ \cup {key}]
      r3 == [r2 EXCEPT !.processed = Append(@, key), !.node = node]
      r4 == IF node.name = targetName
            THEN [r3 EXCEPT !.matches = Append(@, [pathString |-> Join(node.path, PathSep),
                                                    version |-> node.version])]
            ELSE r3
  IN /\ r.pc = "traverse"
     /\ r.queue # <<>>
     /\ ~r.truncated
     /\ IF alreadyVisited(r.visited, key)
        THEN /\ proc' = [proc EXCEPT ![p] =
                  [r1 EXCEPT !.skipped = @ \cup {key},
                             !.droppedPaths = IF node.name = targetName
                                              THEN @ \cup {[pathString |-> Join(node.path, PathSep),
                                                            version |-> node.version]}
                                              ELSE @]]
             /\ UNCHANGED fetchCount
        ELSE IF overCeiling(r2.visited)
        THEN /\ proc' = [proc EXCEPT ![p] = [r2 EXCEPT !.truncated = TRUE]]
             /\ UNCHANGED fetchCount
        ELSE IF stopAtTarget(node, targetName)
        THEN /\ proc' = [proc EXCEPT ![p] = r4]
             /\ UNCHANGED fetchCount
        ELSE IF Cached(node.name)
        THEN /\ proc' = [proc EXCEPT ![p] = expandNode(r4, packageMetaCache[node.name])]
             /\ UNCHANGED fetchCount
        ELSE /\ proc' = [proc EXCEPT ![p] = startFetch(r4, node.name, "node")]
             /\ fetchCount' = [fetchCount EXCEPT ![node.name] = @ + 1]
     /\ UNCHANGED <<packageMetaCache, versionResolutionCache, active, calls, failures,
                    past, shell>>

\* resolveVersion for the next dependency of the node, up to the fetch if
\* there is one, and the enqueueing of the resolved version.
resolveVersion(p) ==
  LET r == proc[p]
      depName == Head(r.deps)[1]
      depRange == Head(r.deps)[2]
      key == <<depName, depRange>>
  IN /\ r.pc = "deps"
     /\ IF key \in DOMAIN versionResolutionCache
        THEN /\ proc' = [proc EXCEPT ![p] =
                  enqueueResolved(noteResolve(r, Cached(depName), versionResolutionCache[key]),
                                  versionResolutionCache[key])]
             /\ UNCHANGED <<versionResolutionCache, fetchCount>>
        ELSE IF Cached(depName)
        THEN /\ versionResolutionCache' =
                  Put(versionResolutionCache, key,
                      resolveIn(packageMetaCache[depName], depRange))
             /\ proc' = [proc EXCEPT ![p] =
                  enqueueResolved(noteResolve(r, TRUE, resolveIn(packageMetaCache[depName], depRange)),
                                  resolveIn(packageMetaCache[depName], depRange))]
             /\ UNCHANGED fetchCount
        ELSE /\ proc' = [proc EXCEPT ![p] = startFetch(r, depName, "resolve")]
             /\ fetchCount' = [fetchCount EXCEPT ![depName] = @ + 1]
             /\ UNCHANGED versionResolutionCache
     /\ UNCHANGED <<packageMetaCache, active, calls, failures, past, shell>>

\* The candidate loop without the return on success.
candidateOutcome_NoShortCircuit(r, c, threw, dependencyResult) ==
  IF threw THEN catch(r) ELSE [r EXCEPT !.pc = "candidate", !.idx = @ + 1]

\* What the candidate loop does with the verdict: a throw goes to the catch
\* block, a success returns at once, a failure moves to the next candidate.
\* The loop without its step to the next candidate: a rejected candidate is
\* evaluated again.
candidateOutcome_Retry(r, c, threw, dependencyResult) == IF threw THEN catch(r) ELSE IF dependencyResult.success THEN return(r, TRUE, c.version, dependencyResult.message, dependencyResult.details) ELSE [r EXCEPT !.pc = "candidate"]

candidateOutcome(r, c, threw, dependencyResult) ==
  IF threw THEN catch(r)
  ELSE IF dependencyResult.success
  THEN return(r, TRUE, c.version,
              [dependencyResult.message EXCEPT
                 !.versionType = IF c.type = "stable" THEN "stable release"
                                 ELSE "pre-release"],
              dependencyResult.details)
  ELSE [r EXCEPT !.pc = "candidate", !.idx = @ + 1]

\* The traversal has ended (empty queue, or the break at the node ceiling):
\* analyzePackageDependencies gives its verdict and the candidate loop
\* returns on success or goes on.
analyzePackageDependencies(p) ==
  LET r == proc[p]
      c == r.candidates[r.idx]
      q == r.params
      threw == verdictThrows(r.matches, q.childPackage, q.childMinVersion, q.packageRemoved)
      dependencyResult ==
        verdict(r.matches, c.version, q.childPackage, q.childMinVersion, q.packageRemoved)
      eval == [version |-> c.version, matches |-> r.matches,
               visitedCount |-> Cardinality(r.visited), truncated |-> r.truncated,
               success |-> ~threw /\ dependencyResult.success, threw |-> threw,
               details |-> IF threw THEN <<>> ELSE dependencyResult.details]
      r1 == [r EXCEPT !.lastEval = eval,
                      !.evalLog = Append(@, [version |-> c.version, success |-> eval.success,
                                             truncated |-> r.truncated,
                                             matches |-> r.matches])]
  IN /\ r.pc = "traverse"
     /\ r.queue = <<>> \/ r.truncated
     /\ proc' = [proc EXCEPT ![p] = candidateOutcome(r1, c, threw, dependencyResult)]
     /\ UNCHANGED <<packageMetaCache, versionResolutionCache, active, calls,
                    failures, fetchCount, past, shell>>

Next ==
  \/ \E p \in active, body \in RouteBodies : POST(p, body)
  \/ \E p \in active, argv \in CliArgvs : run(p, argv)
  \/ \E p \in active : getPackageVersions(p)
  \/ \E p \in active, ok \in BOOLEAN : fetchResponds(p, ok)
  \/ \E p \in active : nextCandidate(p)
  \/ \E p \in active : dequeue(p)
  \/ \E p \in active : resolveVersion(p)
  \/ \E p \in active : analyzePackageDependencies(p)

Spec == Init /\ [][Next]_vars

\* The searches that can end without a candidate or without a success: a
\* parent with no published version, a floor above every version, and the
\* searches over a.
FailBodies ==
  {b \in RouteBodies : b.parentPackage = pkgA \/ b.parentMinVersion = <<"4">>}
    \cup [parentPackage : {pkgT}, parentMinVersion : {<<>>},
           childPackage : {pkgD}, childMinVersion : {<<"2">>},
           packageRemoved : {FALSE}]

NextFail ==
  \/ \E p \in active, body \in FailBodies : POST(p, body)
  \/ \E p \in active : getPackageVersions(p)
  \/ \E p \in active, ok \in BOOLEAN : fetchResponds(p, ok)
  \/ \E p \in active : nextCandidate(p)
  \/ \E p \in active : dequeue(p)
  \/ \E p \in active : resolveVersion(p)
  \/ \E p \in active : analyzePackageDependencies(p)

SpecFail == Init /\ [][NextFail]_vars

\* One caller whose call is always continued: the event loop runs every
\* continuation that is ready, and every request to the registry settles
\* (it is answered or it fails).  Each step of a call is weakly fair.  For
\* the four steps that sort and compare whole version lists the condition
\* is WF written out, with the step's guard in the place of ENABLED: the
\* step is possible exactly when its guard holds, and it always changes pc.
fairStep(p) ==
  /\ WF_vars(nextCandidate(p))
  /\ WF_vars(dequeue(p))
  /\ []<>(proc[p].pc # "deps") \/ []<><<resolveVersion(p)>>_vars
  /\ []<>(proc[p].pc # "versions") \/ []<><<getPackageVersions(p)>>_vars
  /\ []<>(proc[p].pc # "fetching") \/ []<><<\E ok \in BOOLEAN : fetchResponds(p, ok)>>_vars
  /\ \/ []<>(~(proc[p].pc = "traverse" /\ (proc[p].queue = <<>> \/ proc[p].truncated)))
     \/ []<><<analyzePackageDependencies(p)>>_vars

\* The searches of the fair specification: the parents whose trees hold the
\* dependency cycles, in both modes.
FairBodies ==
  [parentPackage : {pkgP}, parentMinVersion : {<<>>, <<"2", ".", "1">>},
   childPackage : {pkgD}, childMinVersion : {<<>>, <<"2">>},
   packageRemoved : BOOLEAN]

NextFair ==
  \/ \E p \in active, body \in FairBodies : POST(p, body)
  \/ \E p \in active : getPackageVersions(p)
  \/ \E p \in active, ok \in BOOLEAN : fetchResponds(p, ok)
  \/ \E p \in active : nextCandidate(p)
  \/ \E p \in active : dequeue(p)
  \/ \E p \in active : resolveVersion(p)
  \/ \E p \in active : analyzePackageDependencies(p)

SpecFair == Init /\ [][NextFair]_vars /\ \A p \in Procs : fairStep(p)

(***************************************************************************)
(* Two searches served concurrently by one server process: both callers   *)
(* come through the HTTP route and share the two process-wide caches.     *)
(***************************************************************************)
MaxConcCalls == 1

ConcBodies ==
  {b \in RouteBodies : /\ b.parentPackage = pkgP
                       /\ b.parentMinVersion = <<"1", ".", "1">>
                       /\ b.childMinVersion = <<>>
                       /\ b.packageRemoved}

InitConc ==
  /\ packageMetaCache = <<>>
  /\ versionResolutionCache = <<>>
  /\ proc = [p \in Procs |-> InitProc]
  /\ active = Procs
  /\ calls = [p \in Procs |-> 0]
  /\ failures = 0
  /\ fetchCount = [n \in DOMAIN Registry \cup {pkgY, <<>>} |-> 0]
  /\ past = NoPast
  /\ shell = InitShell

NextConc ==
  \/ \E p \in active, body \in ConcBodies : calls[p] < MaxConcCalls /\ POST(p, body)
  \/ \E p \in active : getPackageVersions(p)
  \/ \E p \in active, ok \in BOOLEAN : fetchResponds(p, ok)
  \/ \E p \in active : nextCandidate(p)
  \/ \E p \in active : dequeue(p)
  \/ \E p \in active : resolveVersion(p)
  \/ \E p \in active : analyzePackageDependencies(p)

SpecConc == InitConc /\ [][NextConc]_vars

(***************************************************************************)
(* One caller of a server process that restarts once (a cold start): the   *)
(* module-level caches are created anew, empty, when the module is loaded. *)
(* The last call served before the restart is kept in past.                *)
(***************************************************************************)
ColdBodies ==
  {b \in RouteBodies : /\ b.parentPackage = pkgP
                       /\ b.parentMinVersion = <<"1", ".", "1">>
                       /\ b.childMinVersion \in {<<>>, <<"2">>}
                       /\ b.packageRemoved}

coldStart(p) ==
  /\ proc[p].pc = "done"
  /\ ~past.recorded
  /\ packageMetaCache # <<>> \/ versionResolutionCache # <<>>
  /\ past' = [recorded |-> TRUE, params |-> proc[p].params, result |-> proc[p].result,
              evalLog |-> proc[p].evalLog, warm |-> calls[p] > 1,
              ownFailure |-> proc[p].ownFailure]
  /\ packageMetaCache' = <<>>
  /\ versionResolutionCache' = <<>>
  /\ proc' = [proc EXCEPT ![p] = InitProc]
  /\ calls' = [calls EXCEPT ![p] = 0]
  /\ fetchCount' = [n \in DOMAIN fetchCount |-> 0]
  /\ UNCHANGED <<active, failures, shell>>

NextCold ==
  \/ \E p \in active, body \in ColdBodies : POST(p, body)
  \/ \E p \in active : coldStart(p)
  \/ \E p \in active : getPackageVersions(p)
  \/ \E p \in active, ok \in BOOLEAN : fetchResponds(p, ok)
  \/ \E p \in active : nextCandidate(p)
  \/ \E p \in active : dequeue(p)
  \/ \E p \in active : resolveVersion(p)
  \/ \E p \in active : analyzePackageDependencies(p)

SpecCold == Init /\ [][NextCold]_vars

(***************************************************************************)
(* The shell-out variant: getDependencyLines of lib/package-finder.ts.     *)
(* Two searches are served by one process; each analyses its candidate     *)
(* versions one after the other, every analysis in a bash child that       *)
(* makes the temporary directory, installs into it and lists the tree.     *)
(***************************************************************************)
notShell == <<packageMetaCache, versionResolutionCache, proc, active, calls, failures, fetchCount, past>>

\* Date.now() moves on by a millisecond.
tick ==
  /\ shell.now < MaxClock
  /\ shell' = [shell EXCEPT !.now = @ + 1]
  /\ UNCHANGED notShell

\* getDependencyLines up to spawn: the directory name is taken from the
\* clock and the bash child is started.
getDependencyLines(p) ==
  /\ shell.job[p].pc = "idle"
  /\ shell.job[p].done < MaxAnalyses
  /\ shell' = [shell EXCEPT !.job[p] = [@ EXCEPT !.pc = "spawned",
                                                 !.tempDir = tempDirAt(shell.now),
                                                 !.installed = FALSE,
                                                 !.lines = FALSE]]
  /\ UNCHANGED notShell

\* mkdir -p "${tempDir}" && cd "${tempDir}"
setupMkdir(p) ==
  /\ shell.job[p].pc = "spawned"
  /\ shell' = [shell EXCEPT !.dirs = @ \cup {shell.job[p].tempDir},
                            !.job[p].pc = "inDir"]
  /\ UNCHANGED notShell

\* npm init -y && npm install: fails when the directory is gone.
setupInstall(p) ==
  /\ shell.job[p].pc = "inDir"
  /\ shell' = [shell EXCEPT !.job[p] = [@ EXCEPT !.pc = "installed",
                                                 !.installed = shell.job[p].tempDir \in shell.dirs]]
  /\ UNCHANGED notShell

\* npm ls --all | grep || true: the tree is listed when the install went
\* through and the directory is still there; then bash exits.
setupList(p) ==
  /\ shell.job[p].pc = "installed"
  /\ shell' = [shell EXCEPT !.job[p] = [@ EXCEPT !.pc = "closed",
                                                 !.lines = shell.job[p].installed /\ shell.job[p].tempDir \in shell.dirs]]
  /\ UNCHANGED notShell

\* The close handler: rm -rf of the directory, and the promise resolves.
onClose(p) ==
  /\ shell.job[p].pc = "closed"
  /\ shell' = [shell EXCEPT !.dirs = @ \ {shell.job[p].tempDir},
                            !.job[p] = [@ EXCEPT !.pc = "idle", !.done = @ + 1]]
  /\ UNCHANGED notShell

NextShell ==
  \/ tick
  \/ \E p \in Procs : getDependencyLines(p)
  \/ \E p \in Procs : setupMkdir(p)
  \/ \E p \in Procs : setupInstall(p)
  \/ \E p \in Procs : setupList(p)
  \/ \E p \in Procs : onClose(p)

SpecShell == InitConc /\ [][NextShell]_vars

(***************************************************************************)
(* Properties.                                                             *)
(***************************************************************************)
nameOf(key) == splitNameAndVersion(key)[1]

pathStrings(matches) == [i \in 1..Len(matches) |-> matches[i].pathString]

\* The last evaluation of caller p's current call, if it has made one.
Evaluated(p) == proc[p].evalLog # <<>>

\* C1: the candidates are traversed and evaluated strictly in candidate
\* order, and a successful evaluation is the last thing the call does: no
\* later candidate is started or evaluated, and the call has returned with
\* that candidate.
C1_ShortCircuit ==
  \A p \in active :
    LET r == proc[p]
    IN /\ Len(r.started) <= Len(r.candidates)
       /\ \A i \in 1..Len(r.started) : r.started[i] = r.candidates[i].version
       /\ Len(r.evalLog) <= Len(r.started)
       /\ Len(r.started) <= Len(r.evalLog) + 1
       /\ \A i \in 1..Len(r.evalLog) : r.evalLog[i].version = r.started[i]
       /\ \A i \in 1..Len(r.evalLog) :
            r.evalLog[i].success =>
              /\ i = Len(r.evalLog)
              /\ Len(r.started) = i
              /\ r.pc = "done"
              /\ r.result.success
              /\ r.result.version = r.evalLog[i].version

C1_Witness ==
  \E p \in active :
    /\ proc[p].pc = "done"
    /\ proc[p].result.success
    /\ Len(proc[p].evalLog) >= 2
    /\ Len(proc[p].evalLog) < Len(proc[p].candidates)

\* The stable versions of the parent that are >= the floor, taken from the
\* manifest and not from the candidate list.
StableAtLeastFloor(r) ==
  LET keys == versionKeys(packageMetaCache[r.params.parentPackage])
      floor == r.params.parentMinVersion
  IN {keys[i] : i \in {j \in 1..Len(keys) :
        /\ ~semverPrerelease(keys[j])
        /\ floor = <<>> \/ semverGte(normalizeVersion(keys[j]), normalizeVersion(floor))}}

\* C2: a call that returns success with version v has evaluated every
\* candidate before v and each of them failed; every stable version >= the
\* floor that is lower than v has failed, and when v is a pre-release every
\* stable version >= the floor has failed.
C2_LowestSuccess ==
  \A p \in active :
    LET r == proc[p]
        k == Len(r.evalLog)
        v == r.result.version
    IN (r.pc = "done" /\ r.result.success) =>
         /\ k >= 1
         /\ r.candidates[k].version = v
         /\ r.evalLog[k].success
         /\ \A i \in 1..(k - 1) :
              r.evalLog[i].version = r.candidates[i].version /\ ~r.evalLog[i].success
         /\ \A w \in StableAtLeastFloor(r) :
              (semverPrerelease(v) \/ semverLt(w, v)) =>
                \E i \in 1..(k - 1) : r.evalLog[i].version = w /\ ~r.evalLog[i].success

C2_Witness ==
  \E p \in active :
    /\ proc[p].pc = "done"
    /\ proc[p].result.success
    /\ semverPrerelease(proc[p].result.version)
    /\ Len(proc[p].evalLog) >= 2

\* Every occurrence's recorded version, padded, is >= the padded minimum.
MinVersionHolds(matches, minVersion) ==
  /\ matches # <<>>
  /\ \A i \in 1..Len(matches) :
       semverGte(normalizeVersion(matches[i].version), normalizeVersion(minVersion))

\* C3: in min-version mode with a minimum V, the evaluation succeeds exactly
\* when the occurrence list is non-empty and every occurrence's recorded
\* version is >= V after padding.
C3_MinVersionIff ==
  \A p \in active :
    LET r == proc[p]
        e == r.lastEval
    IN (/\ Evaluated(p)
        /\ ~r.params.packageRemoved
        /\ semverValid(normalizeVersion(r.params.childMinVersion))) =>
         (e.success <=> MinVersionHolds(e.matches, r.params.childMinVersion))

\* C4: in removed-OR-min-version mode the evaluation succeeds exactly when
\* the occurrence list is empty or min-version mode succeeds on the same
\* occurrences and threshold.
C4_RemovedOrMinVersion ==
  \A p \in active :
    LET r == proc[p]
        e == r.lastEval
    IN (Evaluated(p) /\ r.params.packageRemoved /\ r.params.childMinVersion # <<>>) =>
         (e.success <=>
            \/ e.matches = <<>>
            \/ verdict(e.matches, e.version, r.params.childPackage,
                       r.params.childMinVersion, FALSE).success)

C4_Witness ==
  \E p \in active :
    /\ Evaluated(p)
    /\ proc[p].params.packageRemoved
    /\ proc[p].params.childMinVersion # <<>>
    /\ proc[p].lastEval.matches # <<>>
    /\ proc[p].lastEval.success
    /\ \E i \in 1..Len(proc[p].evalLog) : ~proc[p].evalLog[i].success

\* C5: in removed mode the evaluation succeeds exactly when the occurrence
\* list is empty, and a failure's details are all occurrence path strings.
C5_RemovedMode ==
  \A p \in active :
    LET r == proc[p]
        e == r.lastEval
    IN (Evaluated(p) /\ r.params.packageRemoved /\ r.params.childMinVersion = <<>>) =>
         /\ e.success <=> e.matches = <<>>
         /\ e.matches # <<>> => e.details = pathStrings(e.matches)

C5_Witness ==
  \E p \in active :
    /\ Evaluated(p)
    /\ proc[p].params.packageRemoved
    /\ proc[p].params.childMinVersion = <<>>
    /\ Len(proc[p].lastEval.matches) >= 1
    /\ ~proc[p].lastEval.success

\* C6: a SearchResult whose verdict was reached under truncation differs
\* from every SearchResult whose verdict was reached by an exhaustive
\* traversal.
C6_TruncationDistinguishable ==
  \A p, q \in active :
    (/\ proc[p].pc = "done" /\ proc[p].result.kind = "search" /\ Evaluated(p)
     /\ proc[q].pc = "done" /\ proc[q].result.kind = "search" /\ Evaluated(q)
     /\ proc[p].result = proc[q].result) =>
      (proc[p].lastEval.truncated <=> proc[q].lastEval.truncated)

invalidParams(q) ==
  \/ q.parentPackage = <<>>
  \/ q.childPackage = <<>>
  \/ ~q.packageRemoved /\ q.childMinVersion = <<>>

\* C7: a call whose params are invalid issues no registry fetch, starts no
\* traversal, makes no evaluation and does not succeed, whichever entry
\* point supplied the params.
C7_ValidatedBeforeFetch ==
  \A p \in active :
    LET r == proc[p]
    IN (r.entry # "none" /\ r.result.kind # "usage" /\ invalidParams(r.params)) =>
         /\ r.fetches = 0
         /\ r.started = <<>>
         /\ r.evalLog = <<>>
         /\ ~r.result.success

\* C8: within one traversal no (name, version) key is processed twice, each
\* processed target node is recorded as one occurrence, no target node is
\* expanded and no queue entry is a dependency of a target node.
C8_VisitOnceTargetLeaf ==
  \A p \in active :
    LET r == proc[p]
        targetName == r.params.childPackage
        targetKeys == {i \in 1..Len(r.processed) : nameOf(r.processed[i]) = targetName}
    IN /\ \A i, j \in 1..Len(r.processed) : i # j => r.processed[i] # r.processed[j]
       /\ Cardinality(targetKeys) = Len(r.matches)
       /\ \A i \in 1..Len(r.matches) :
            \E j \in targetKeys : r.processed[j] = hop(targetName, r.matches[i].version)
       /\ \A k \in r.expanded : nameOf(k) # targetName
       /\ \A i \in 1..Len(r.queue) :
            LET path == r.queue[i].path
            IN Len(path) >= 2 => nameOf(path[Len(path) - 1]) # targetName

\* A traversal that met a key again and recorded a target version which has
\* dependencies of its own.
C8_Witness ==
  \E p \in active :
    LET r == proc[p]
    IN /\ r.pc = "traverse"
       /\ r.queue = <<>>
       /\ r.skipped # {}
       /\ \E i \in 1..Len(r.matches) :
            LET meta == Registry[r.params.childPackage]
            IN mergeDeps(meta[versionIndex(meta, r.matches[i].version)]) # <<>>

\* C9: every path from the root to the target that the traversal reaches is
\* in the occurrence list, also when two paths lead to the same target
\* version.
C9_EveryPathRecorded ==
  \A p \in active : proc[p].droppedPaths = {}

\* C9 (amended): the occurrence list has one entry per target version, the
\* path dequeued first; a later path to the same target version is dropped.
C9_OnePathPerTargetVersion ==
  \A p \in active :
    LET r == proc[p]
    IN /\ \A i, j \in 1..Len(r.matches) :
            i # j => r.matches[i].version # r.matches[j].version
       /\ \A d \in r.droppedPaths :
            /\ \A i \in 1..Len(r.matches) : r.matches[i] # d
            /\ \E i \in 1..Len(r.matches) :
                 r.matches[i].version = d.version /\ r.matches[i].pathString # d.pathString

C9_Witness ==
  \E p \in active :
    /\ proc[p].pc = "traverse"
    /\ proc[p].queue = <<>>
    /\ proc[p].droppedPaths # {}
    /\ Len(proc[p].matches) = 1

\* C10: two callers never have a registry request for the same package name
\* in flight at the same time.
C10_SingleFetchPerName ==
  \A p, q \in active :
    (p # q /\ proc[p].pc = "fetching" /\ proc[q].pc = "fetching") =>
      proc[p].fetchName # proc[q].fetchName

\* C11: the caches are never a correctness dependency.  For fixed parameters
\* and a fixed registry snapshot a call returns the same SearchResult whether
\* the caches are empty (the first call after a restart) or hold the entries
\* earlier invocations left, including invocations during which a fetch
\* failed.  Calls that suffer a failed fetch themselves are not compared.
C11_CacheIndependent ==
  \A p \in Procs :
    LET r == proc[p]
    IN (/\ past.recorded /\ past.warm /\ ~past.ownFailure
        /\ r.pc = "done" /\ calls[p] = 1 /\ ~r.ownFailure
        /\ r.params = past.params)
       => r.result = past.result

\* C12: whatever the registry answers to each fetch, findCompatibleVersion
\* never throws: no call ends with an exception, and a call in progress
\* always has a next step.  When the fetch of the parent's own version list
\* fails, the call has returned a SearchResult with success = false and the
\* error message, and no candidate was traversed or evaluated.
C12_NeverThrows ==
  \A p \in Procs :
    LET r == proc[p]
    IN /\ r.pc # "threw"
       /\ r.pc = "deps" => r.deps # <<>>
       /\ r.pc = "candidate" => r.idx \in 1..(Len(r.candidates) + 1)
       /\ r.pc = "fetching" => r.cont \in {"versions", "node", "resolve"}
       /\ r.parentFetchFailed =>
            /\ r.pc = "done"
            /\ r.result.kind = "search"
            /\ ~r.result.success
            /\ r.result.version = Null
            /\ r.result.message.text = "Error during search"
            /\ r.candidates = <<>>
            /\ r.started = <<>>
            /\ r.evalLog = <<>>
            /\ r.processed = <<>>

\* A call whose fetch of the parent's version list failed has returned.
C12_Witness ==
  \E p \in Procs :
    /\ proc[p].parentFetchFailed
    /\ proc[p].pc = "done"
    /\ proc[p].fetchName = proc[p].params.parentPackage
    /\ proc[p].fetches = 1

\* The merged dependency list of the node "name@version" in the registry.
depsOfKey(key) ==
  LET nv == splitNameAndVersion(key)
      meta == Registry[nv[1]]
  IN mergeDeps(meta[versionIndex(meta, nv[2])])

\* What the edge <<name, range>> leads to: the answer resolveVersion gave
\* for it if it was asked, else the version the registry resolves it to.
resolvedEdge(dep) ==
  IF dep \in DOMAIN versionResolutionCache THEN versionResolutionCache[dep]
  ELSE IF dep[1] \in DOMAIN Registry THEN resolveIn(Registry[dep[1]], dep[2])
  ELSE Null

\* C13: a dependency whose manifest fetch fails or whose range resolves to
\* no version is skipped without raising.  The traversal goes on: when it
\* ends below the node ceiling, every edge of every expanded node that was
\* not skipped has been followed, every node reached that is not the target
\* was expanded and every target version reached is in the occurrence list;
\* and every candidate whose traversal was started gets its verdict.
C13_SkipAndContinue ==
  \A p \in Procs :
    LET r == proc[p]
    IN /\ r.pc # "threw"
       /\ (r.pc \in {"candidate", "done"} /\ r.started # <<>>)
            => Len(r.evalLog) = Len(r.started)
       /\ (r.pc = "traverse" /\ r.queue = <<>> /\ ~r.truncated) =>
            /\ \A k \in r.expanded : \A i \in 1..Len(depsOfKey(k)) :
                 LET dep == depsOfKey(k)[i]
                 IN resolvedEdge(dep) # Null => hop(dep[1], resolvedEdge(dep)) \in r.visited
            /\ \A k \in r.visited :
                 IF nameOf(k) = r.params.childPackage
                 THEN \E i \in 1..Len(r.matches) :
                        hop(r.params.childPackage, r.matches[i].version) = k
                 ELSE k \in r.expanded

\* A traversal that skipped an unresolvable range and a failed fetch, in
\* this order, before the edge that leads to the target, has ended with the
\* occurrence recorded.
C13_Witness ==
  \E p \in Procs :
    LET r == proc[p]
    IN /\ r.pc = "traverse" /\ r.queue = <<>> /\ ~r.truncated
       /\ <<pkgZ, Caret(V("9", "0", "0"))>> \in r.nullEdges
       /\ <<pkgY, Star>> \in r.nullEdges
       /\ Len(r.matches) = 1
       /\ r.matches[1].version = V("2", "0", "0")

\* The published versions of the parent that are at or above the floor, both
\* sides padded to three parts; an empty floor keeps every version.
atLeastFloor(q) ==
  {w \in {versionKeys(Registry[q.parentPackage])[i] :
             i \in 1..Len(Registry[q.parentPackage])} :
     \/ q.parentMinVersion = <<>>
     \/ semverGte(normalizeVersion(w), normalizeVersion(q.parentMinVersion))}

\* C14: the candidate sequence, when the candidate loop starts on it, holds
\* exactly the parent's versions at or above the floor, each once; every
\* stable candidate comes before every pre-release candidate, and each of
\* the two groups is strictly ascending.  The search reports that no version
\* reaches the floor only when none does.
C14_CandidateOrder ==
  \A p \in Procs :
    LET r == proc[p]
        cs == r.candidates
    IN /\ (r.pc = "candidate" /\ r.idx = 1) =>
            /\ {cs[i].version : i \in 1..Len(cs)} = atLeastFloor(r.params)
            /\ \A i \in 1..Len(cs) :
                 cs[i].type = IF semverPrerelease(cs[i].version) THEN "pre-release"
                              ELSE "stable"
            /\ \A i, j \in 1..Len(cs) :
                 i < j => \/ cs[i].type = "stable" /\ cs[j].type = "pre-release"
                          \/ /\ cs[i].type = cs[j].type
                             /\ semverLt(cs[i].version, cs[j].version)
       /\ (r.pc = "done" /\ r.result.message.text = "No versions >= floor")
            => atLeastFloor(r.params) = {}
       /\ (r.pc \in {"candidate", "traverse", "deps"}) => cs # <<>>
       /\ r.pc = "traverse" => r.idx \in 1..Len(cs)

\* A call whose six candidates are four stable versions followed by two
\* pre-releases in ascending order, with the candidate loop about to start.
C14_Witness ==
  \E p \in Procs :
    LET r == proc[p]
        cs == r.candidates
    IN /\ r.params.parentPackage = pkgP
       /\ r.params.parentMinVersion = <<>>
       /\ Len(cs) = 6
       /\ cs[4].type = "stable" /\ cs[5].type = "pre-release"
       /\ cs[5].version = V("1", "1", "0") \o <<"-", "1">>
       /\ cs[6].version = V("3", "0", "0") \o <<"-", "1">>
       /\ r.pc = "candidate" /\ r.idx = 1

\* The published pre-releases of the floor version itself: the versions with
\* a pre-release tag whose major.minor.patch is that of the padded floor.
floorPrereleases(q) ==
  {w \in {versionKeys(Registry[q.parentPackage])[i] :
             i \in 1..Len(Registry[q.parentPackage])} :
     /\ semverPrerelease(w)
     /\ sameTuple(semverParse(w), semverParse(normalizeVersion(q.parentMinVersion)))}

candidateVersions(r) == [i \in 1..Len(r.candidates) |-> r.candidates[i].version]

betaOne == V("1", "0", "0") \o <<"-", "b", "e", "t", "a", ".", "1">>

\* C15: a pre-release of the floor version itself is kept as a candidate and
\* placed after the stable candidates: with the published versions 1.0.0,
\* 1.0.0-beta.1, 0.9.0, 2.0.0 and the floor 1.0.0 the candidate sequence is
\* 1.0.0, 2.0.0, 1.0.0-beta.1.
C15_FloorPrereleaseKept ==
  \A p \in Procs :
    LET r == proc[p]
    IN (r.pc = "candidate" /\ r.idx = 1 /\ r.params.parentMinVersion # <<>>) =>
         /\ \A w \in floorPrereleases(r.params) :
              \E i \in 1..Len(r.candidates) : r.candidates[i].version = w
         /\ (r.params.parentPackage = pkgA /\ r.params.parentMinVersion = V("1", "0", "0"))
              => candidateVersions(r) = <<V("1", "0", "0"), V("2", "0", "0"), betaOne>>

\* C15 amended: a pre-release of the floor version itself precedes the floor
\* in semantic-version order and is never a candidate: with the published
\* versions 1.0.0, 1.0.0-beta.1, 0.9.0, 2.0.0 and the floor 1.0.0 the
\* candidate sequence is 1.0.0, 2.0.0.  The pre-releases that are candidates
\* come after every stable candidate.
C15_FloorPrereleaseDropped ==
  \A p \in Procs :
    LET r == proc[p]
        cs == r.candidates
    IN (r.pc = "candidate" /\ r.idx = 1 /\ r.params.parentMinVersion # <<>>) =>
         /\ \A w \in floorPrereleases(r.params) :
              \A i \in 1..Len(cs) : cs[i].version # w
         /\ (r.params.parentPackage = pkgA /\ r.params.parentMinVersion = V("1", "0", "0"))
              => candidateVersions(r) = <<V("1", "0", "0"), V("2", "0", "0")>>
         /\ \A i, j \in 1..Len(cs) :
              (semverPrerelease(cs[i].version) /\ ~semverPrerelease(cs[j].version)) => j < i

\* The search over the versions 1.0.0, 1.0.0-beta.1, 0.9.0, 2.0.0 with the
\* floor 1.0.0 has its candidates and is about to try the first of them.
C15_Witness ==
  \E p \in Procs :
    LET r == proc[p]
    IN /\ r.params.parentPackage = pkgA
       /\ r.params.parentMinVersion = V("1", "0", "0")
       /\ floorPrereleases(r.params) = {betaOne}
       /\ Len(r.candidates) = 2
       /\ r.pc = "candidate" /\ r.idx = 1

\* C16: in removed mode (packageRemoved, no childMinVersion), when the
\* exhaustive traversal of a candidate finds the target nowhere in the tree,
\* the evaluation succeeds, the search returns that success with a message
\* confirming the absence, and the details sequence is empty.
C16_AbsentEmptyDetails ==
  \A p \in Procs :
    LET r == proc[p]
        e == r.lastEval
    IN (/\ r.params.packageRemoved /\ r.params.childMinVersion = <<>>
        /\ e.version # Null /\ e.matches = <<>> /\ ~e.truncated
        /\ r.pc = "done")
       => /\ r.result.success
          /\ r.result.version = e.version
          /\ r.result.message.text = "removed"
          /\ r.result.details = <<>>

\* The greatest of a non-empty set of versions.
maxVersion(S) == CHOOSE w \in S : \A x \in S : semverCompare(w, x) >= 0

\* What the claim asks of resolveVersion(name, range) on the registry.
expectedResolution(name, range) ==
  LET all == {versionKeys(Registry[name])[i] : i \in 1..Len(Registry[name])}
      stableOk == {w \in all : ~semverPrerelease(w) /\ semverSatisfies(w, range, FALSE)}
      anyOk == {w \in all : semverSatisfies(w, range, TRUE)}
  IN IF stableOk # {} THEN maxVersion(stableOk)
     ELSE IF anyOk # {} THEN maxVersion(anyOk)
     ELSE Null

\* C17: whenever resolveVersion(name, range) returns and the manifest of the
\* package is at hand (fetched by this resolution, or in the metadata
\* cache), the value returned is the greatest stable version satisfying the
\* range, or, when no stable version satisfies it, the greatest satisfying
\* version among all versions with pre-releases included, or none when no
\* version satisfies the range.
C17_MaxSatisfying ==
  \A p \in Procs :
    LET lr == proc[p].lastResolve
    IN (lr.name \in DOMAIN Registry /\ lr.hadMeta)
       => lr.value = expectedResolution(lr.name, lr.range)

\* The number of edges of a recorded path: its " > " separators.
hops(pathString) == Cardinality({i \in 1..Len(pathString) : pathString[i] = ">"})

\* The nodes one resolved edge away from the nodes of the frontier; the
\* traversal resolves no edge out of a target node.
successors(frontier, targetName) ==
  UNION {{hop(depsOfKey(k)[i][1], resolvedEdge(depsOfKey(k)[i])) :
            i \in {j \in 1..Len(depsOfKey(k)) : resolvedEdge(depsOfKey(k)[j]) # Null}} :
         k \in {x \in frontier : nameOf(x) # targetName}}

\* The fewest edges from the frontier to goal in the resolved graph, n
\* edges having been walked already; -1 when goal is out of reach.
RECURSIVE distance(_, _, _, _, _)
distance(frontier, seen, goal, targetName, n) ==
  IF goal \in frontier THEN n
  ELSE IF frontier = {} THEN -1
  ELSE distance(successors(frontier, targetName) \ (seen \cup frontier),
                seen \cup frontier, goal, targetName, n + 1)

\* The traversals of two calls agree: a version both evaluated has the same
\* occurrence list in both.
sameOccurrences(logA, logB) ==
  \A i \in 1..Len(logA), j \in 1..Len(logB) :
    logA[i].version = logB[j].version => logA[i].matches = logB[j].matches

\* C18: occurrences are produced in breadth-first discovery order.  Along
\* the occurrence list the path lengths never decrease; each recorded path
\* has the fewest hops of any path from the root to that target version in
\* the resolved graph; and two traversals with the same root and target on
\* the same registry snapshot, neither of which meets a failed fetch of its
\* own, produce the same occurrence list in the same order.
C18_BfsDeterministic ==
  \A p \in Procs :
    LET r == proc[p]
        q == r.params
    IN /\ \A i, j \in 1..Len(r.matches) :
            i < j => hops(r.matches[i].pathString) <= hops(r.matches[j].pathString)
       /\ (r.pc \in {"traverse", "deps"} /\ r.matches # <<>>) =>
            \A i \in 1..Len(r.matches) :
              hops(r.matches[i].pathString)
                = distance({hop(q.parentPackage, r.candidates[r.idx].version)}, {},
                           hop(q.childPackage, r.matches[i].version), q.childPackage, 0)
       /\ (/\ past.recorded /\ ~past.ownFailure /\ ~r.ownFailure
           /\ q.parentPackage = past.params.parentPackage
           /\ q.childPackage = past.params.childPackage)
            => sameOccurrences(past.evalLog, r.evalLog)

\* C19: in every SearchResult that findCompatibleVersion returns, the field
\* version is present if and only if success is true, and a version that is
\* present is one of the published versions of the parent at or above the
\* floor.
C19_VersionIffSuccess ==
  \A p \in Procs :
    LET r == proc[p]
    IN (r.pc = "done" /\ r.result.kind = "search") =>
         /\ r.result.version # Null <=> r.result.success
         /\ r.result.version # Null => r.result.version \in atLeastFloor(r.params)

\* A search with a floor has returned a success above the floor after a
\* failed candidate; the published versions below the floor were no
\* candidates.
C19_Witness ==
  \E p \in Procs :
    LET r == proc[p]
    IN /\ r.pc = "done" /\ r.result.kind = "search"
       /\ r.result.success
       /\ r.params.parentMinVersion = <<"1", ".", "1">>
       /\ r.result.version = V("2", "0", "0")
       /\ Len(r.evalLog) = 2

\* The occurrences whose recorded version is below the threshold, both
\* padded to three parts, in traversal order.
belowThreshold(matches, minVersion) ==
  SelectSeq(matches,
            LAMBDA m : semverLt(normalizeVersion(m.version), normalizeVersion(minVersion)))

\* C20: when the evaluation against a minimum version fails on a non-empty
\* occurrence list, the details are exactly the path strings of the
\* occurrences whose version is below the threshold, in traversal order;
\* an occurrence that meets the threshold is not listed.
C20_DetailsAreBelowThreshold ==
  \A p \in Procs :
    LET r == proc[p]
        e == r.lastEval
        q == r.params
    IN (/\ q.childMinVersion # <<>>
        /\ e.version # Null /\ e.matches # <<>>
        /\ ~e.threw /\ ~e.success)
       => e.details = pathStrings(belowThreshold(e.matches, q.childMinVersion))

\* C21: the exit code of the CLI reflects the outcome: 0 when the search
\* succeeded, 1 on a usage error, 2 when the search ran to completion and no
\* version met the criteria, and no other code but 99; a search that could
\* not run because the fetch of the parent's manifest failed does not exit
\* with 2.
C21_ExitCodes ==
  \A p \in Procs :
    LET r == proc[p]
    IN (r.entry = "cli" /\ r.pc = "done") =>
         /\ r.exitCode \in {0, 1, 2, 99}
         /\ (r.result.kind = "search" /\ r.result.success) => r.exitCode = 0
         /\ r.result.kind = "usage" => r.exitCode = 1
         /\ (r.result.kind = "search" /\ ~r.result.success /\ ~r.parentFetchFailed)
              => r.exitCode = 2
         /\ r.parentFetchFailed => r.exitCode # 2

\* C22: the three outcomes without a success are told apart by the message.
\* A search that returns no success and did not end in the catch block says
\* "no versions" exactly when the parent has no published version, "no
\* version at or above the floor" exactly when it has versions but none
\* reaches the floor, and "no compatible version" exactly when there were
\* candidates; in this last case every candidate has been evaluated exactly
\* once, in order, and none was accepted.
C22_FailuresDistinguished ==
  \A p \in Procs :
    LET r == proc[p]
        text == r.result.message.text
        published == Registry[r.params.parentPackage]
    IN (/\ r.pc = "done" /\ r.result.kind = "search" /\ ~r.result.success
        /\ text # "Error during search")
       => /\ text \in {"No versions found", "No versions >= floor",
                       "No compatible version found"}
          /\ text = "No versions found" <=> published = <<>>
          /\ text = "No versions >= floor"
               <=> (published # <<>> /\ atLeastFloor(r.params) = {})
          /\ text = "No compatible version found" <=> atLeastFloor(r.params) # {}
          /\ text = "No compatible version found" =>
               /\ Len(r.evalLog) = Len(r.candidates)
               /\ \A i \in 1..Len(r.evalLog) :
                    /\ r.evalLog[i].version = r.candidates[i].version
                    /\ ~r.evalLog[i].success
               /\ r.started = candidateVersions(r)

\* A search has returned "no compatible version" after evaluating at least
\* two candidates.
C22_Witness ==
  \E p \in Procs :
    LET r == proc[p]
    IN /\ r.pc = "done"
       /\ r.result.message.text = "No compatible version found"
       /\ Len(r.evalLog) = Len(r.candidates)
       /\ Len(r.evalLog) >= 2

\* The version record behind a node key, and the edges the registry gives
\* it: one per name of dependencies or optionalDependencies, with the
\* optional range when the name is in both.
recordOfKey(key) ==
  LET nv == splitNameAndVersion(key)
      meta == Registry[nv[1]]
  IN meta[versionIndex(meta, nv[2])]

namesIn(entries) == {entries[i][1] : i \in 1..Len(entries)}

rangeIn(entries, name) ==
  entries[CHOOSE i \in 1..Len(entries) : entries[i][1] = name][2]

edgesOf(pkg) ==
  {<<n, IF n \in namesIn(pkg.optionalDependencies)
        THEN rangeIn(pkg.optionalDependencies, n)
        ELSE rangeIn(pkg.dependencies, n)>> :
     n \in namesIn(pkg.dependencies) \cup namesIn(pkg.optionalDependencies)}

\* C23: a node is expanded through exactly the names of its dependencies
\* and optionalDependencies, one edge per name, with the optional range for a
\* name in both.  The edges still to resolve are edges of the node, one per
\* name; every queued node hangs off its parent by such an edge, resolved
\* from that edge's range, so no node is queued through a peer-only name; and
\* when a traversal has emptied its queue, every edge of every expanded node
\* that resolves has been followed.
C23_DepsAndOptionalOnly ==
  \A p \in Procs :
    LET r == proc[p]
    IN /\ r.pc = "deps" =>
            /\ \A i \in 1..Len(r.deps) :
                 <<r.deps[i][1], r.deps[i][2]>>
                   \in edgesOf(recordOfKey(hop(r.node.name, r.node.version)))
            /\ \A i, j \in 1..Len(r.deps) : r.deps[i][1] = r.deps[j][1] => i = j
       /\ r.pc \in {"traverse", "deps"} =>
            \A i \in 1..Len(r.queue) :
              LET q == r.queue[i]
              IN Len(q.path) >= 2 =>
                   \E e \in edgesOf(recordOfKey(q.path[Len(q.path) - 1])) :
                     /\ e[1] = q.name
                     /\ resolvedEdge(e) = q.version
       /\ (r.pc = "traverse" /\ r.queue = <<>> /\ ~r.truncated) =>
            \A k \in r.expanded : \A e \in edgesOf(recordOfKey(k)) :
              resolvedEdge(e) # Null => hop(e[1], resolvedEdge(e)) \in r.visited

\* p@3.0.0, which names d in both maps and g as a peer only, has been
\* expanded: d@2.0.0 (the optional range) is queued behind it.
C23_Witness ==
  \E p \in Procs :
    LET r == proc[p]
    IN /\ r.pc = "traverse"
       /\ hop(pkgP, V("3", "0", "0")) \in r.expanded
       /\ \E i \in 1..Len(r.queue) :
            /\ r.queue[i].name = pkgD
            /\ r.queue[i].version = V("2", "0", "0")
            /\ r.queue[i].path = <<hop(pkgP, V("3", "0", "0")), hop(pkgD, V("2", "0", "0"))>>

\* The strings a call hands to normalizeVersion: the floor and every
\* published version of the parent (the floor filter), the child's minimum
\* and the version of every occurrence (analyzeVersionRequirements).
normalizedBy(r) ==
  {r.params.parentMinVersion, r.params.childMinVersion}
    \cup (IF r.params.parentPackage \in DOMAIN Registry
          THEN {Registry[r.params.parentPackage][i].version :
                  i \in 1..Len(Registry[r.params.parentPackage])}
          ELSE {})
    \cup {r.matches[i].version : i \in 1..Len(r.matches)}

dots(version) == Cardinality({i \in 1..Len(version) : version[i] = "."})

RECURSIVE zeros(_)
zeros(n) == IF n <= 0 THEN <<>> ELSE <<".", "0">> \o zeros(n - 1)

\* C24: normalizeVersion is idempotent; a version of three or more
\* dot-separated components is returned unchanged, one of fewer gets ".0"
\* appended until it has three ("4" gives "4.0.0", "4.1" gives "4.1.0").
\* Stated of the strings of a call once the floor filter or the evaluation
\* of the first candidate has applied it.
C24_NormalizeIdempotent ==
  /\ normalizeVersion(<<"4">>) = V("4", "0", "0")
  /\ normalizeVersion(<<"4", ".", "1">>) = V("4", "1", "0")
  /\ \A p \in Procs :
       (\/ proc[p].pc = "candidate" /\ proc[p].idx <= 2
        \/ proc[p].pc = "done" /\ proc[p].evalLog = <<>>) =>
         \A v \in normalizedBy(proc[p]) :
           /\ normalizeVersion(normalizeVersion(v)) = normalizeVersion(v)
           /\ dots(v) >= 2 => normalizeVersion(v) = v
           /\ dots(v) < 2 => normalizeVersion(v) = v \o zeros(2 - dots(v))

\* A search with floor "4" has gone through the floor filter, or one over
\* the versions of a, among them 1.0.0-beta.1 with four components, has
\* evaluated the occurrences of its first candidate.
C24_Witness ==
  \E p \in Procs :
    LET r == proc[p]
    IN \/ /\ r.pc = "done" /\ r.result.kind = "search"
          /\ r.params.parentMinVersion = <<"4">>
          /\ r.result.message.text = "No versions >= floor"
       \/ /\ r.pc = "candidate" /\ r.idx = 2
          /\ r.params.parentPackage = pkgA
          /\ betaOne \in normalizedBy(r)
          /\ r.matches # <<>>

\* The node an edge of the registry leads to: the version its range
\* resolves to among the published versions, none for an unpublished name.
registryEdge(e) ==
  IF e[1] \in DOMAIN Registry THEN expectedResolution(e[1], e[2]) ELSE Null

registrySuccessors(frontier, targetName) ==
  UNION {{hop(e[1], registryEdge(e)) :
            e \in {x \in edgesOf(recordOfKey(k)) : registryEdge(x) # Null}} :
         k \in {x \in frontier : nameOf(x) # targetName}}

\* The nodes within reach of the frontier along paths with no target node
\* before their end.
RECURSIVE registryReach(_, _, _)
registryReach(frontier, seen, targetName) ==
  IF frontier = {} THEN seen
  ELSE registryReach(registrySuccessors(frontier, targetName) \ (seen \cup frontier),
                     seen \cup frontier, targetName)

reachableTargets(rootKey, targetName) ==
  {splitNameAndVersion(k)[2] :
     k \in {x \in registryReach({rootKey}, {}, targetName) : nameOf(x) = targetName}}

\* C25: a traversal of a call in which no fetch failed, and which the node
\* ceiling did not cut short, lists exactly the versions of the target
\* within reach of the root in the registry, each once; so a success in
\* removed mode means that no version of the target is within reach.
C25_OccurrencesAreReachable ==
  \A p \in Procs :
    LET r == proc[p]
    IN (r.pc = "done" /\ ~r.ownFailure) =>
         \A i \in 1..Len(r.evalLog) :
           LET ev == r.evalLog[i]
               within == reachableTargets(hop(r.params.parentPackage, ev.version),
                                          r.params.childPackage)
           IN ~ev.truncated =>
                /\ {ev.matches[j].version : j \in 1..Len(ev.matches)} = within
                /\ Len(ev.matches) = Cardinality(within)
                /\ (r.params.packageRemoved /\ r.params.childMinVersion = <<>>
                      /\ ev.success) => within = {}

\* C26: the version analyzeVersionRequirements compares against the
\* threshold is, for every occurrence of an evaluation, the version recorded
\* for that occurrence (the last hop of its path), and an occurrence whose
\* line yields no version is not passed as meeting the threshold.
C26_ComparesOwnVersion ==
  \A p \in Procs :
    LET r == proc[p]
        e == r.lastEval
        q == r.params
    IN (q.childMinVersion # <<>> /\ e.version # Null /\ ~e.threw) =>
         \A i \in 1..Len(e.matches) :
           LET line == e.matches[i].pathString
           IN /\ matchVersion(line, q.childPackage) # Null =>
                   matchVersion(line, q.childPackage) = e.matches[i].version
              /\ matchVersion(line, q.childPackage) = Null =>
                   (~q.packageRemoved => ~e.success)

\* C27: whenever the resolution cache holds none for a (name, range) key,
\* no published version of that package satisfies the range; and no
\* resolution answers none from the cache for a key that a published version
\* satisfies.
C27_CachedNoneIsFinal ==
  /\ \A key \in DOMAIN versionResolutionCache :
       versionResolutionCache[key] = Null => registryEdge(key) = Null
  /\ \A p \in Procs :
       LET l == proc[p].lastResolve
       IN (l.name # <<>> /\ l.value = Null /\ ~proc[p].ownFailure)
            => registryEdge(<<l.name, l.range>>) = Null

\* A traversal of process p is under way.
traversing(p) ==
  \/ proc[p].pc \in {"traverse", "deps"}
  \/ proc[p].pc = "fetching" /\ proc[p].cont \in {"node", "resolve"}

\* The traversals a call has started are the first candidates in order,
\* each once.
onePerCandidate(r) ==
  /\ Len(r.started) <= Len(r.candidates)
  /\ \A i \in 1..Len(r.started) : r.started[i] = r.candidates[i].version
  /\ \A i, j \in 1..Len(r.started) : r.started[i] = r.started[j] => i = j

\* C28: every traversal that is under way comes to its end, also on the
\* dependency cycles of the registry (b and c, c e g); every call that is
\* under way returns; and a call starts at most one traversal per candidate
\* version.
C28_Terminates ==
  /\ \A p \in Procs : [](traversing(p) => <>(~traversing(p)))
  /\ \A p \in Procs : [](proc[p].pc \notin {"idle", "done"} => <>(proc[p].pc = "done"))
  /\ [](\A p \in Procs : onePerCandidate(proc[p]))

\* A call has returned after a traversal that ran into the cycle of b and c
\* and dropped a node it had visited before.
C28_Witness ==
  \E p \in Procs :
    LET r == proc[p]
    IN /\ r.pc = "done" /\ r.result.kind = "search"
       /\ r.skipped # {}
       /\ \E i, j \in 1..Len(r.processed) :
            nameOf(r.processed[i]) = pkgB /\ nameOf(r.processed[j]) = pkgC

\* The nodes a finished traversal has met and not processed: the node it
\* stopped at, and the nodes still queued that were never visited.
leftUnprocessed(r) ==
  (r.visited \ {r.processed[i] : i \in 1..Len(r.processed)})
    \cup ({hop(r.queue[i].name, r.queue[i].version) : i \in 1..Len(r.queue)} \ r.visited)

\* C29: after a traversal, visitedCount is the number of nodes processed
\* and is at most the node ceiling, and truncated is true exactly when a
\* reachable node was left unprocessed because of the ceiling.
C29_VisitedCountIsProcessed ==
  \A p \in Procs :
    LET r == proc[p]
        e == r.lastEval
    IN (r.pc \in {"candidate", "done"} /\ e.version # Null) =>
         /\ e.visitedCount = Len(r.processed)
         /\ e.visitedCount <= maxNodes
         /\ e.truncated <=> leftUnprocessed(r) # {}

\* C30: in the shell-out variant two analyses in flight at the same time
\* never use the same temporary directory, and the directory in which an
\* analysis is installing or listing is not removed under it.
C30_TempDirsDisjoint ==
  /\ \A p, q \in Procs :
       (p # q /\ shell.job[p].pc # "idle" /\ shell.job[q].pc # "idle")
         => shell.job[p].tempDir # shell.job[q].tempDir
  /\ \A p \in Procs :
       shell.job[p].pc \in {"inDir", "installed"} => shell.job[p].tempDir \in shell.dirs
====
